---------------------------- MODULE Spec2Model ----------------------------
(***************************************************************************)
(* Model of the reddit_meme_scraper pipeline: the scheduler loop of        *)
(* main.py, RedditScraper.scrape_memes with its identifier store           *)
(* (sent_posts / sent_posts.json), TelegramSender's three-tier delivery    *)
(* and the counters of MonitoringManager.update_stats.                     *)
(***************************************************************************)
EXTENDS Integers, Sequences, FiniteSets, TLC

(***************************************************************************)
(* Bounds of the model.                                                    *)
(***************************************************************************)
\* number of scrape_and_send invocations explored (over all process runs)
MaxCycles == 2
\* number of process crashes / restarts explored
MaxRestarts == 1
\* reddit.limit of config.json: listings are cut to this many posts
Limit == 2

(***************************************************************************)
(* Configuration defaults read by scrape_memes / _passes_filters.          *)
(***************************************************************************)
min_score == 100
max_title_length == 200
exclude_nsfw == TRUE
image_only == TRUE
\* reddit.subreddits of config.json, in configured order
subreddits == <<"memes", "dankmemes">>

image_extensions == {".jpg", ".jpeg", ".png", ".gif", ".webp"}

(***************************************************************************)
(* The posts the upstream API can list.  A post belongs to one subreddit;  *)
(* its url is kept as host and extension, its preview as the shape of      *)
(* post.preview.                                                           *)
(***************************************************************************)
PostIds == 1..5

Post(id) ==
  CASE id = 1 -> [id |-> 1, subreddit |-> "memes", score |-> 100, over_18 |-> FALSE,
                  title_len |-> 200, host |-> "i.imgur.com", ext |-> ".JPG",
                  preview |-> "resolutions", post_hint |-> "image"]
    [] id = 2 -> [id |-> 2, subreddit |-> "memes", score |-> 500, over_18 |-> FALSE,
                  title_len |-> 20, host |-> "imgur.com", ext |-> "",
                  preview |-> "resolutions", post_hint |-> "image"]
    [] id = 3 -> [id |-> 3, subreddit |-> "dankmemes", score |-> 250, over_18 |-> FALSE,
                  title_len |-> 50, host |-> "i.redd.it", ext |-> "",
                  preview |-> "absent", post_hint |-> "image"]
    [] id = 4 -> [id |-> 4, subreddit |-> "dankmemes", score |-> 99, over_18 |-> FALSE,
                  title_len |-> 10, host |-> "i.redd.it", ext |-> ".png",
                  preview |-> "absent", post_hint |-> "image"]
    [] id = 5 -> [id |-> 5, subreddit |-> "memes", score |-> 300, over_18 |-> FALSE,
                  title_len |-> 10, host |-> "example.com", ext |-> "",
                  preview |-> "empty_images", post_hint |-> "image"]

VARIABLES
  pc,            \* position of the process: boot, idle, scrape, save, deliver,
                 \* image, document, text, aborted
  upstream,      \* subreddit name -> listing (sequence of post ids) the API serves
  file,          \* sent_posts.json: [state: missing | valid | corrupt, ids]
  sent_posts,    \* RedditScraper.sent_posts
  enabled,       \* config telegram.enabled
  sub,           \* scrape_memes: index of the subreddit being scraped
  idx,           \* scrape_memes: index of the next post of the listing
  memes,         \* scrape_memes: the list memes (post ids of the items)
  mi,            \* scrape_and_send: index of the meme being delivered
  sent_count,    \* scrape_and_send: sent_count
  failed_count,  \* scrape_and_send: failed_count
  stats,         \* MonitoringManager.stats: scraped, sent, failed, last_run
  outcome,       \* how the last scrape_and_send ended: none | running | complete | error
  log,           \* history: per meme passed to send_memes in this cycle, how far
                 \* the delivery went, how it ended and how the driver counted it
  sends,         \* history: the send primitives called for the current meme
  handed,        \* history: post id -> times passed to send_memes
  failed_subs,   \* history: subreddits whose scraping raised in this scrape_memes
  prev_failed,   \* history, while scrape_memes runs on the listings of the previous
                 \* scrape_memes of this process: the failed_subs of that one
  same_listings, \* history, while scrape_memes runs: the listings are those the
                 \* previous scrape_memes of this process was served
  save_failed,   \* history: save_sent_posts raised in this cycle
  failed_before, \* history: stats.failed when this cycle began
  scrapes,       \* history: scrape_memes calls begun by this process
  cycles,        \* number of cycles begun
  restarts,      \* number of restarts
  saves,         \* history: calls of save_sent_posts in this scrape_memes
  refreshes,     \* history: calls of _refresh_connection in this cycle
  sleeps,        \* history: asyncio.sleep(1) pacing delays in this cycle
  probe,         \* the call of a pure function under examination: its kind,
                 \* its input, its output and whether it has returned
  missing,       \* what the environment of this process lacks: "none",
                 \* "config.json" or the name of an environment variable
  sent_before,   \* history: stats.sent when this cycle began
  undelivered    \* history: ids passed to send_memes for which no send
                 \* primitive succeeded

vars == <<pc, upstream, file, sent_posts, enabled, sub, idx, memes, mi, sent_count,
          failed_count, stats, outcome, log, sends, handed, failed_subs, prev_failed,
          same_listings, save_failed, failed_before, scrapes, cycles,
          restarts, saves, refreshes, sleeps, probe, missing, sent_before,
          undelivered>>

SubredditNames == {subreddits[i] : i \in 1..Len(subreddits)}
NoListings == [s \in SubredditNames |-> <<>>]
EmptyStats == [scraped |-> 0, sent |-> 0, failed |-> 0, last_run |-> 0]

\* no pure function is under examination
NoProbe == [kind |-> "none", input |-> <<>>, output |-> <<>>, returned |-> FALSE]

\* the process has just been started for the first time
ProcessInit ==
  /\ pc = "boot"
  /\ upstream = NoListings
  /\ file = [state |-> "missing", ids |-> {}]
  /\ sent_posts = {}
  /\ enabled = TRUE
  /\ sub = 1
  /\ idx = 1
  /\ memes = <<>>
  /\ mi = 1
  /\ sent_count = 0
  /\ failed_count = 0
  /\ stats = EmptyStats
  /\ outcome = "none"
  /\ log = <<>>
  /\ sends = <<>>
  /\ handed = [p \in PostIds |-> 0]
  /\ failed_subs = {}
  /\ prev_failed = {}
  /\ same_listings = FALSE
  /\ save_failed = FALSE
  /\ failed_before = 0
  /\ scrapes = 0
  /\ cycles = 0
  /\ restarts = 0
  /\ saves = 0
  /\ refreshes = 0
  /\ sleeps = 0
  /\ missing = "none"
  /\ sent_before = 0
  /\ undelivered = {}

Init ==
  /\ ProcessInit
  /\ probe = NoProbe

(***************************************************************************)
(* utils.is_image_url: url.lower().endswith(ext) for a known extension.    *)
(***************************************************************************)
Lower(ext) ==
  CASE ext = ".JPG" -> ".jpg"
    [] ext = ".PNG" -> ".png"
    [] OTHER -> ext

is_image_url(post) == Lower(post.ext) \in image_extensions

\* a filter that drops a post whose score is exactly min_score
passes_filters_ScoreAbove(post) ==
  IF post.score <= min_score THEN FALSE
  ELSE IF exclude_nsfw /\ post.over_18 THEN FALSE
  ELSE IF post.title_len > max_title_length THEN FALSE
  ELSE IF image_only /\ ~(is_image_url(post) \/ post.post_hint = "image") THEN FALSE
  ELSE TRUE

\* a filter that drops a post whose title has exactly max_title_length characters
passes_filters_TitleBelow(post) ==
  IF post.score < min_score THEN FALSE
  ELSE IF exclude_nsfw /\ post.over_18 THEN FALSE
  ELSE IF post.title_len >= max_title_length THEN FALSE
  ELSE IF image_only /\ ~(is_image_url(post) \/ post.post_hint = "image") THEN FALSE
  ELSE TRUE

(***************************************************************************)
(* RedditScraper._passes_filters                                           *)
(***************************************************************************)
passes_filters(post) ==
  IF post.score < min_score THEN FALSE
  ELSE IF exclude_nsfw /\ post.over_18 THEN FALSE
  ELSE IF post.title_len > max_title_length THEN FALSE
  ELSE IF image_only /\ ~(is_image_url(post) \/ post.post_hint = "image") THEN FALSE
  ELSE TRUE

\* an extraction that lets its exception out
ExceptInExtract_Reraise == "raise"

\* except Exception of _extract_meme_data: the error is logged, None is returned
ExceptInExtract == "None"

\* an extraction that looks at the preview before the url
extract_meme_data_PreviewFirst(post) ==
  IF post.preview \in {"empty_images", "resolutions", "source_only"}
  THEN CASE post.preview = "resolutions" -> "preview_resolution"
         [] post.preview = "source_only" -> "preview_source"
         [] post.preview = "empty_images" -> ExceptInExtract
  ELSE IF is_image_url(post) THEN "url"
  ELSE IF post.host = "i.redd.it" THEN "url"
  ELSE "None"

(***************************************************************************)
(* RedditScraper._extract_meme_data: the image_url of the item, or "None"  *)
(* when no image url is found or the extraction raises (an empty images    *)
(* list makes post.preview['images'][0] raise, which is caught).           *)
(***************************************************************************)
extract_meme_data(post) ==
  IF is_image_url(post) THEN "url"
  ELSE IF post.preview \in {"empty_images", "resolutions", "source_only"}
       THEN CASE post.preview = "resolutions" -> "preview_resolution"
              [] post.preview = "source_only" -> "preview_source"
              [] post.preview = "empty_images" -> ExceptInExtract
  ELSE IF post.host = "i.redd.it" THEN "url"
  ELSE "None"

\* a scraper whose store holds only the last post recorded
AddSentPost_Replace(seen, id) == {id}

\* a scraper that never records the post
AddSentPost_Forget(seen, id) == seen

(***************************************************************************)
(* self.sent_posts.add(post.id)                                            *)
(***************************************************************************)
AddSentPost(seen, id) == seen \cup {id}

\* a scraper that skips no post
AlreadySent_Never(seen, id) == FALSE

\* the test "post.id in self.sent_posts"
AlreadySent(seen, id) == id \in seen

Min(a, b) == IF a < b THEN a ELSE b

\* posts = subreddit.hot(limit=limit) for the subreddit being scraped
Posts == LET all == upstream[subreddits[sub]]
         IN  SubSeq(all, 1, Min(Limit, Len(all)))

\* the posts of the listings u
Listed(u) == UNION {{u[s][i] : i \in 1..Len(u[s])} : s \in SubredditNames}

(***************************************************************************)
(* The environment: new posts appear at the head of their subreddit's      *)
(* listing, those of one subreddit in the order of their ids (the API      *)
(* numbers posts as they are created).  NewListings(u, k) are the listings *)
(* u can have become after at most k new posts.                            *)
(***************************************************************************)
\* the next post to appear in the subreddit of p is p
IsNext(u, p) ==
  /\ p \notin Listed(u)
  /\ \A q \in PostIds : (Post(q).subreddit = Post(p).subreddit /\ q < p) => q \in Listed(u)

RECURSIVE NewListings(_, _)
NewListings(u, k) ==
  IF k = 0 THEN {u}
  ELSE LET before == NewListings(u, k - 1)
       IN  before \cup
           {[v EXCEPT ![Post(p).subreddit] = <<p>> \o @] :
              <<v, p>> \in {w \in before \X PostIds : IsNext(w[1], w[2])}}

\* a loader that starts every process with an empty set
load_sent_posts_Forget(f) ==
  CASE f.state = "corrupt" -> [raises |-> TRUE, ids |-> {}]
    [] OTHER -> [raises |-> FALSE, ids |-> {}]

(***************************************************************************)
(* utils.load_sent_posts: only FileNotFoundError is caught; a file that    *)
(* does not parse makes json.load raise.                                   *)
(***************************************************************************)
load_sent_posts(f) ==
  CASE f.state = "missing" -> [raises |-> FALSE, ids |-> {}]
    [] f.state = "valid" -> [raises |-> FALSE, ids |-> f.ids]
    [] f.state = "corrupt" -> [raises |-> TRUE, ids |-> {}]

(***************************************************************************)
(* The environment a process is started in: complete, or lacking           *)
(* config.json or one of the five environment variables (os.getenv then    *)
(* returns None).                                                          *)
(***************************************************************************)
RedditCredentials == {"REDDIT_CLIENT_ID", "REDDIT_CLIENT_SECRET", "REDDIT_USER_AGENT"}
TelegramCredentials == {"TELEGRAM_BOT_TOKEN", "TELEGRAM_CHAT_ID"}
Environments == {"none", "config.json"} \cup RedditCredentials \cup TelegramCredentials

\* load_config raises FileNotFoundError when config.json is not there
load_config_raises(m) == m = "config.json"

\* praw.Reddit(client_id=..., client_secret=..., user_agent=...) raises for a
\* client_id or user_agent of None; client_secret=None passed by keyword is the
\* documented setting of an installed application and is accepted
praw_Reddit_raises(m) == m \in {"REDDIT_CLIENT_ID", "REDDIT_USER_AGENT"}

\* TelegramSender.__init__: if not self.bot_token or not self.chat_id
TelegramSender_raises(m) == m \in TelegramCredentials

\* does an exception leave main before the scheduler is set up
StartupRaises(m, load_raises) ==
  \/ load_config_raises(m)
  \/ load_raises
  \/ praw_Reddit_raises(m)
  \/ TelegramSender_raises(m)

\* listing requests are authorized: the script application of setup.py has a
\* secret, and without it the token request is refused
Authorized == missing # "REDDIT_CLIENT_SECRET"

\* a scheduler that runs a pending job while the last one is in progress
SchedulerMayRun_Anytime(p) == p \notin {"boot", "aborted"}

\* scrape_and_send is called from main's own thread: once after the setup and
\* by schedule.run_pending() in the while loop, each after the last call returned
SchedulerMayRun(p) == p = "idle"

(***************************************************************************)
(* main(): load_config, RedditScraper(config), TelegramSender(config),     *)
(* MonitoringManager(config).  An exception of a constructor ends main.    *)
(***************************************************************************)
Startup ==
  /\ pc = "boot"
  /\ \E m \in Environments :
       /\ missing' = m
       /\ LET loaded == load_sent_posts(file)
          IN  IF StartupRaises(m, loaded.raises)
              THEN /\ pc' = "aborted"
                   /\ UNCHANGED <<sent_posts, enabled, stats>>
              ELSE /\ pc' = "idle"
                   /\ sent_posts' = loaded.ids
                   /\ enabled' \in BOOLEAN
                   /\ stats' = EmptyStats
  /\ UNCHANGED <<upstream, file, sub, idx, memes, mi, sent_count, failed_count,
                 outcome, log, sends, handed, undelivered, failed_subs, prev_failed, same_listings,
                 save_failed, failed_before, scrapes, cycles, restarts, saves,
                 refreshes, sleeps, probe, sent_before>>

(***************************************************************************)
(* scrape_and_send is entered (the immediate first run or a scheduled      *)
(* run) and scrape_memes starts with memes = [].  The listings it will be  *)
(* served are those of the last cycle with the posts that appeared since.  *)
(***************************************************************************)
BeginCycle ==
  /\ SchedulerMayRun(pc)
  /\ cycles < MaxCycles
  /\ pc' = "scrape"
  /\ cycles' = cycles + 1
  /\ scrapes' = scrapes + 1
  /\ sub' = 1
  /\ idx' = 1
  /\ memes' = <<>>
  /\ mi' = 1
  /\ sent_count' = 0
  /\ failed_count' = 0
  /\ outcome' = "running"
  /\ log' = <<>>
  /\ sends' = <<>>
  /\ failed_subs' = {}
  /\ upstream' \in NewListings(upstream, Cardinality(PostIds))
  /\ same_listings' = (scrapes > 0 /\ upstream' = upstream)
  /\ prev_failed' = IF same_listings' THEN failed_subs ELSE {}
  /\ save_failed' = FALSE
  /\ failed_before' = stats.failed
  /\ saves' = 0
  /\ refreshes' = 0
  /\ sleeps' = 0
  /\ sent_before' = stats.sent
  /\ UNCHANGED <<file, sent_posts, enabled, stats, handed, undelivered, restarts, probe, missing>>

\* a scrape_memes that saves after every subreddit
NextSubreddit_SaveEach ==
  /\ pc' = "save"
  /\ UNCHANGED <<sub, idx>>

\* the for loop over subreddits moves on, or scrape_memes reaches save_sent_posts
NextSubreddit ==
  IF sub < Len(subreddits)
  THEN /\ sub' = sub + 1
       /\ idx' = 1
       /\ pc' = "scrape"
  ELSE /\ pc' = "save"
       /\ UNCHANGED <<sub, idx>>

\* a scraper that records the posts it passes over as well
Continue_Record(seen, id) == seen \cup {id}

\* continue, and the if meme_data that is not taken: the store is left alone
Continue(seen, id) == seen

\* a scraper that puts each new item in front of the others
AppendMeme_InFront(ms, id) == <<id>> \o ms

\* memes.append(meme_data)
AppendMeme(ms, id) == Append(ms, id)

(***************************************************************************)
(* One iteration of "for post in posts".                                   *)
(***************************************************************************)
ProcessPost ==
  /\ pc = "scrape"
  /\ Authorized
  /\ idx <= Len(Posts)
  /\ LET post == Post(Posts[idx])
         image_url == extract_meme_data(post)
     IN  IF AlreadySent(sent_posts, post.id) \/ ~passes_filters(post) \/ image_url = "None"
         THEN /\ memes' = memes
              /\ sent_posts' = Continue(sent_posts, post.id)
         ELSE /\ memes' = AppendMeme(memes, post.id)
              /\ sent_posts' = AddSentPost(sent_posts, post.id)
  /\ idx' = idx + 1
  /\ UNCHANGED <<pc, upstream, file, enabled, sub, mi, sent_count, failed_count,
                 stats, outcome, log, sends, handed, undelivered, failed_subs, prev_failed,
                 same_listings, save_failed, failed_before, scrapes,
                 cycles, restarts, saves, refreshes, sleeps, probe, missing, sent_before>>

\* the listing is exhausted
EndSubreddit ==
  /\ pc = "scrape"
  /\ Authorized
  /\ idx > Len(Posts)
  /\ NextSubreddit
  /\ UNCHANGED <<upstream, file, sent_posts, enabled, memes, mi, sent_count,
                 failed_count, stats, outcome, log, sends, handed, undelivered, failed_subs,
                 prev_failed, same_listings, save_failed, failed_before,
                 scrapes, cycles, restarts, saves, refreshes, sleeps, probe, missing, sent_before>>

\* a scrape_memes that gives up at the first subreddit that fails
ContinueAfterError_Abort ==
  /\ pc' = "save"
  /\ UNCHANGED <<sub, idx>>

\* except Exception of the subreddit loop: the error is logged, the loop goes on
ContinueAfterError == NextSubreddit

(***************************************************************************)
(* The listing request or the handling of a post raises: the except of the *)
(* subreddit loop logs it and the loop goes on with the next subreddit.    *)
(***************************************************************************)
SubredditError ==
  /\ pc = "scrape"
  /\ idx = 1 \/ idx <= Len(Posts)
  /\ failed_subs' = failed_subs \cup {subreddits[sub]}
  /\ ContinueAfterError
  /\ UNCHANGED <<upstream, file, sent_posts, enabled, memes, mi, sent_count,
                 failed_count, stats, outcome, log, sends, handed, undelivered, prev_failed,
                 same_listings, save_failed, failed_before, scrapes,
                 cycles, restarts, saves, refreshes, sleeps, probe, missing, sent_before>>

\* a save_sent_posts that writes nothing
save_sent_posts_Skip(f, seen, how) == f

(***************************************************************************)
(* utils.save_sent_posts: open(..., 'w') truncates the file and json.dump  *)
(* writes it.  how = "ok": written; "open": open raises and the file is    *)
(* left as it was; "dump": the write raises after the truncation and the   *)
(* file no longer parses.                                                  *)
(***************************************************************************)
SaveOutcomes == {"ok", "open", "dump"}

save_sent_posts(f, seen, how) ==
  CASE how = "ok" -> [state |-> "valid", ids |-> seen]
    [] how = "open" -> f
    [] how = "dump" -> [state |-> "corrupt", ids |-> {}]

\* a monitor whose counters hold the last count reported
update_stats_Lossy(st, event_type, count) ==
  CASE event_type = "scraped" -> [st EXCEPT !.scraped = count]
    [] event_type = "sent" -> [st EXCEPT !.sent = count]
    [] event_type = "failed" -> [st EXCEPT !.failed = count]
    [] event_type = "run_complete" -> [st EXCEPT !.last_run = cycles]

(***************************************************************************)
(* MonitoringManager.update_stats for the events the driver reports.       *)
(***************************************************************************)
update_stats(st, event_type, count) ==
  CASE event_type = "scraped" -> [st EXCEPT !.scraped = @ + count]
    [] event_type = "sent" -> [st EXCEPT !.sent = @ + count]
    [] event_type = "failed" -> [st EXCEPT !.failed = @ + count]
    [] event_type = "run_complete" -> [st EXCEPT !.last_run = cycles]

(***************************************************************************)
(* save_sent_posts succeeds and scrape_memes returns memes to              *)
(* scrape_and_send: with no meme the run is complete, otherwise the        *)
(* scraped counter is updated and the delivery loop starts.                *)
(***************************************************************************)
SaveSentPosts ==
  /\ pc = "save"
  /\ file' = save_sent_posts(file, sent_posts, "ok")
  /\ saves' = saves + 1
  /\ IF memes # <<>>
     THEN /\ stats' = update_stats(stats, "scraped", Len(memes))
          /\ pc' = "deliver"
          /\ outcome' = outcome
     ELSE /\ stats' = update_stats(stats, "run_complete", 0)
          /\ pc' = "idle"
          /\ outcome' = "complete"
  /\ same_listings' = FALSE
  /\ prev_failed' = {}
  /\ UNCHANGED <<upstream, sent_posts, enabled, sub, idx, memes, mi, sent_count,
                 failed_count, log, sends, handed, undelivered, failed_subs,
                 save_failed, failed_before, scrapes,
                 cycles, restarts, refreshes, sleeps, probe, missing, sent_before>>

(***************************************************************************)
(* save_sent_posts raises: the exception leaves scrape_memes and is caught *)
(* by the outer except of scrape_and_send, which counts one failure.       *)
(***************************************************************************)
SaveFails ==
  /\ pc = "save"
  /\ \E how \in SaveOutcomes \ {"ok"} : file' = save_sent_posts(file, sent_posts, how)
  /\ stats' = update_stats(stats, "failed", 1)
  /\ saves' = saves + 1
  /\ save_failed' = TRUE
  /\ outcome' = "error"
  /\ pc' = "idle"
  /\ same_listings' = FALSE
  /\ prev_failed' = {}
  /\ UNCHANGED <<upstream, sent_posts, enabled, sub, idx, memes, mi, sent_count,
                 failed_count, log, sends, handed, undelivered, failed_subs,
                 failed_before, scrapes, cycles, restarts,
                 refreshes, sleeps, probe, missing, sent_before>>

(***************************************************************************)
(* Results of the three send primitives of the bot.  telegram_error is a   *)
(* TelegramError without one of the two recognised texts, exception an     *)
(* exception that is not a TelegramError.                                  *)
(***************************************************************************)
PhotoOutcomes == {"ok", "photo_invalid_dimensions", "failed_to_get_http_url_content",
                  "telegram_error", "exception"}
DocumentOutcomes == {"ok", "telegram_error", "exception"}
MessageOutcomes == {"ok", "telegram_error", "exception"}

\* a sender that falls back to the document after every failure
FallbackEligible_Any(o) == o # "ok"

\* the test of the except TelegramError clause of _send_single_meme
FallbackEligible(o) ==
  o \in {"photo_invalid_dimensions", "failed_to_get_http_url_content"}

IsTelegramError(o) ==
  o \in {"photo_invalid_dimensions", "failed_to_get_http_url_content", "telegram_error"}

\* a sender that goes on with the document after a photo that was sent
AfterPhoto_FallThrough(o) ==
  IF o = "ok" \/ FallbackEligible(o) THEN "document" ELSE "raise"

\* _send_single_meme after send_photo: done, go on with the document, or raise
AfterPhoto(o) ==
  IF o = "ok" THEN "done"
  ELSE IF IsTelegramError(o) /\ FallbackEligible(o) THEN "document"
  ELSE "raise"

\* _send_as_document after send_document: only a TelegramError is caught
AfterDocument(o) ==
  IF o = "ok" THEN "done"
  ELSE IF IsTelegramError(o) THEN "text"
  ELSE "raise"

\* _send_text_fallback after send_message: every Exception is caught and logged
AfterMessage(o) ==
  IF o = "ok" THEN "done" ELSE "logged"

\* the except Exception around _send_single_meme in _send_memes_async
CaughtBySendLoop(step) == step = "raise"

\* a send_memes that raises when delivery is disabled
SendMemesRaises_WhenDisabled(step) == step = "disabled"

\* does send_memes([meme]) raise into scrape_and_send
SendMemesRaises(step) == step = "raise" /\ ~CaughtBySendLoop(step)

\* asyncio.sleep(1) follows a _send_single_meme that returned, not one that raised
Paced(step) == step \in {"done", "logged"}

\* a driver whose loop ends at the first meme that was not delivered
NextMeme_StopOnFailure(i, step) ==
  IF step \in {"raise", "logged"} THEN Len(memes) + 1 ELSE i + 1

\* the for loop of scrape_and_send goes on with the next meme
NextMeme(i, step) == i + 1

(***************************************************************************)
(* send_memes([meme]) has returned or raised after the send primitive      *)
(* tier: the driver counts the meme and goes on; after the last meme the   *)
(* run is complete.                                                        *)
(***************************************************************************)
Counted(tier, step) ==
  LET raised == SendMemesRaises(step)
      st == IF raised THEN update_stats(stats, "failed", 1)
            ELSE update_stats(stats, "sent", 1)
      next == NextMeme(mi, step)
  IN  /\ log' = Append(log, [id |-> memes[mi], tier |-> tier, result |-> step,
                             counted |-> IF raised THEN "failed" ELSE "sent"])
      /\ sent_count' = IF raised THEN sent_count ELSE sent_count + 1
      /\ failed_count' = IF raised THEN failed_count + 1 ELSE failed_count
      /\ mi' = next
      /\ sleeps' = IF Paced(step) THEN sleeps + 1 ELSE sleeps
      /\ undelivered' = IF step = "done" THEN undelivered
                        ELSE undelivered \cup {memes[mi]}
      /\ IF next > Len(memes)
         THEN /\ stats' = update_stats(st, "run_complete", 0)
              /\ outcome' = "complete"
              /\ pc' = "idle"
         ELSE /\ stats' = st
              /\ outcome' = outcome
              /\ pc' = "deliver"

\* a send_memes that does not look at telegram.enabled
SendMemesProceeds_IgnoreFlag(en, ms) == ms # <<>>

\* send_memes goes past its two early returns: enabled, and memes not empty
SendMemesProceeds(en, ms) == en /\ ms # <<>>

(***************************************************************************)
(* telegram_sender.send_memes([meme]): a no-op when telegram.enabled is    *)
(* false, otherwise the connection is refreshed and _send_single_meme      *)
(* starts.                                                                 *)
(***************************************************************************)
SendMemes ==
  /\ pc = "deliver"
  /\ mi <= Len(memes)
  /\ handed' = [handed EXCEPT ![memes[mi]] = @ + 1]
  /\ sends' = <<>>
  /\ IF SendMemesProceeds(enabled, <<memes[mi]>>)
     THEN /\ refreshes' = refreshes + 1
          /\ pc' = "image"
          /\ UNCHANGED <<log, mi, sent_count, failed_count, stats, outcome, sleeps,
                      undelivered>>
     ELSE /\ refreshes' = refreshes
          /\ Counted("none", "disabled")
  /\ UNCHANGED <<upstream, file, sent_posts, enabled, sub, idx, memes, failed_subs,
                 prev_failed, same_listings, save_failed, failed_before,
                 scrapes, cycles, restarts, saves, probe, missing, sent_before>>

\* what follows one send primitive of _send_single_meme
Step(tier, step) ==
  IF step \in {"done", "raise", "logged"}
  THEN Counted(tier, step)
  ELSE /\ pc' = step
       /\ UNCHANGED <<log, mi, sent_count, failed_count, stats, outcome, sleeps,
                      undelivered>>

\* _send_single_meme: bot.send_photo
SendPhoto ==
  /\ pc = "image"
  /\ \E o \in PhotoOutcomes :
       /\ sends' = Append(sends, <<"image", o>>)
       /\ Step("image", AfterPhoto(o))
  /\ UNCHANGED <<upstream, file, sent_posts, enabled, sub, idx, memes, handed,
                 failed_subs, prev_failed, same_listings, save_failed,
                 failed_before, scrapes, cycles, restarts, saves, refreshes,
                 probe, missing, sent_before>>

\* _send_as_document: bot.send_document
SendDocument ==
  /\ pc = "document"
  /\ \E o \in DocumentOutcomes :
       /\ sends' = Append(sends, <<"document", o>>)
       /\ Step("document", AfterDocument(o))
  /\ UNCHANGED <<upstream, file, sent_posts, enabled, sub, idx, memes, handed,
                 failed_subs, prev_failed, same_listings, save_failed,
                 failed_before, scrapes, cycles, restarts, saves, refreshes,
                 probe, missing, sent_before>>

\* _send_text_fallback: bot.send_message
SendMessage ==
  /\ pc = "text"
  /\ \E o \in MessageOutcomes :
       /\ sends' = Append(sends, <<"text", o>>)
       /\ Step("text", AfterMessage(o))
  /\ UNCHANGED <<upstream, file, sent_posts, enabled, sub, idx, memes, handed,
                 failed_subs, prev_failed, same_listings, save_failed,
                 failed_before, scrapes, cycles, restarts, saves, refreshes,
                 probe, missing, sent_before>>

(***************************************************************************)
(* The process dies and is started again; everything in memory is lost.    *)
(* A process that dies inside save_sent_posts may leave the truncated      *)
(* file behind.  Crashes are followed up to the last cycle explored.       *)
(***************************************************************************)
Crash ==
  /\ pc \notin {"boot", "aborted"}
  /\ restarts < MaxRestarts
  /\ cycles < MaxCycles
  /\ restarts' = restarts + 1
  /\ pc' = "boot"
  /\ IF pc = "save"
     THEN \E how \in {"open", "dump"} : file' = save_sent_posts(file, sent_posts, how)
     ELSE file' = file
  /\ sent_posts' = {}
  /\ sub' = 1
  /\ idx' = 1
  /\ memes' = <<>>
  /\ mi' = 1
  /\ sent_count' = 0
  /\ failed_count' = 0
  /\ stats' = EmptyStats
  /\ outcome' = "none"
  /\ log' = <<>>
  /\ sends' = <<>>
  /\ failed_subs' = {}
  /\ prev_failed' = {}
  /\ same_listings' = FALSE
  /\ save_failed' = FALSE
  /\ failed_before' = 0
  /\ scrapes' = 0
  /\ enabled' = TRUE
  /\ saves' = 0
  /\ refreshes' = 0
  /\ sleeps' = 0
  /\ missing' = "none"
  /\ sent_before' = 0
  /\ UNCHANGED <<upstream, handed, undelivered, cycles, probe>>

Next ==
  \/ Startup
  \/ BeginCycle
  \/ ProcessPost
  \/ EndSubreddit
  \/ SubredditError
  \/ SaveSentPosts
  \/ SaveFails
  \/ SendMemes
  \/ SendPhoto
  \/ SendDocument
  \/ SendMessage
  \/ Crash

Spec == Init /\ [][Next]_vars

(***************************************************************************)
(* The pure functions of the pipeline, each applied once to an input drawn *)
(* from a bounded set around its boundary.  A caption is the sequence of   *)
(* its characters.                                                         *)
(***************************************************************************)
\* captions up to this many characters shorter or longer than the limit
Slack == 30
\* scores and title lengths up to this far from min_score / max_title_length
Around == 1

\* Telegram's caption limit, and the length the caption is cut to
CaptionLimit == 1024
CaptionCut == 1020
Ellipsis == <<".", ".", ".">>

Letter(i) == CASE i % 3 = 0 -> "a" [] i % 3 = 1 -> "b" [] OTHER -> "c"
Text(n) == [i \in 1..n |-> Letter(i)]

\* a meme dict with a title of n characters
Meme(n) ==
  [title |-> Text(n), subreddit |-> <<"m", "e", "m", "e", "s">>,
   score |-> <<"1", "0", "0">>, author |-> Text(6), permalink |-> Text(20)]

(***************************************************************************)
(* The f-strings of _format_caption; "pin", "up", "vs16" and "bust" stand  *)
(* for the code points of the three emoji.                                 *)
(***************************************************************************)
Caption(meme) ==
  <<"*">> \o meme.title \o <<"*", "\n", "\n">>
  \o <<"pin", " ", "r", "/">> \o meme.subreddit \o <<"\n">>
  \o <<"up", "vs16", " ">> \o meme.score
  \o <<" ", "u", "p", "v", "o", "t", "e", "s", "\n">>
  \o <<"bust", " ", "u", "/">> \o meme.author \o <<"\n", "\n">>
  \o <<"[", "V", "i", "e", "w", " ", "o", "n", " ",
       "R", "e", "d", "d", "i", "t", "]", "(">> \o meme.permalink \o <<")">>

\* a sender that cuts a long caption to the limit itself
format_caption_CutToLimit(meme) ==
  LET caption == Caption(meme)
  IN  IF Len(caption) > CaptionLimit
      THEN SubSeq(caption, 1, CaptionLimit - Len(Ellipsis)) \o Ellipsis
      ELSE caption

\* TelegramSender._format_caption
format_caption(meme) ==
  LET caption == Caption(meme)
  IN  IF Len(caption) > CaptionLimit
      THEN SubSeq(caption, 1, CaptionCut) \o Ellipsis
      ELSE caption

\* the memes whose caption is within Slack characters of the limit
TitleLens ==
  {n \in 0..(CaptionLimit + Slack) :
     /\ n + Len(Caption(Meme(0))) >= CaptionLimit - Slack
     /\ n + Len(Caption(Meme(0))) <= CaptionLimit + Slack}

CaptionProbes ==
  {[kind |-> "caption", input |-> Meme(n), output |-> <<>>, returned |-> FALSE] :
     n \in TitleLens}

\* the posts around the boundaries of the filters
FilterPosts ==
  [score : (min_score - Around)..(min_score + Around),
   over_18 : BOOLEAN,
   title_len : (max_title_length - Around)..(max_title_length + Around),
   ext : {"", ".JPG"},
   post_hint : {"image", "link", "absent"}]

FilterProbes ==
  {[kind |-> "filter", input |-> post, output |-> FALSE, returned |-> FALSE] :
     post \in FilterPosts}

\* the shapes of post.url and post.preview that _extract_meme_data tells apart
ExtractPosts ==
  [ext : {"", ".JPG", ".png"},
   host : {"i.redd.it", "i.imgur.com", "example.com"},
   preview : {"absent", "no_images", "empty_images", "resolutions", "source_only"}]

ExtractProbes ==
  {[kind |-> "extract", input |-> post, output |-> "", returned |-> FALSE] :
     post \in ExtractPosts}

\* listings as scrape_memes meets them: filter attributes and media attributes
ListingPosts ==
  [score : {min_score - 1, min_score},
   over_18 : {FALSE},
   title_len : {max_title_length},
   ext : {"", ".JPG"},
   host : {"i.redd.it", "example.com"},
   preview : {"absent", "empty_images", "resolutions", "source_only"},
   post_hint : {"image", "link", "absent"}]

ListingProbes ==
  {[kind |-> "listing", input |-> post, output |-> "", returned |-> FALSE] :
     post \in ListingPosts}

\* what scrape_memes does with a post it has not seen: "filtered", "None"
\* (nothing extracted) or the image_url of the item it appends
scrape_post(post) ==
  IF ~passes_filters(post) THEN "filtered" ELSE extract_meme_data(post)

InitPure ==
  /\ ProcessInit
  /\ \/ probe \in CaptionProbes
     \/ probe \in FilterProbes
     \/ probe \in ExtractProbes
     \/ probe \in ListingProbes

process_vars ==
  <<pc, upstream, file, sent_posts, enabled, sub, idx, memes, mi, sent_count,
    failed_count, stats, outcome, log, sends, handed, failed_subs, prev_failed,
    same_listings, save_failed, failed_before, scrapes, cycles, restarts, saves,
    refreshes, sleeps, missing, sent_before, undelivered>>

\* caption = self._format_caption(meme)
FormatCaption ==
  /\ probe.kind = "caption"
  /\ ~probe.returned
  /\ probe' = [probe EXCEPT !.output = format_caption(probe.input),
                            !.returned = TRUE]
  /\ UNCHANGED process_vars

\* self._passes_filters(post, filters, min_score)
PassesFilters ==
  /\ probe.kind = "filter"
  /\ ~probe.returned
  /\ probe' = [probe EXCEPT !.output = passes_filters(probe.input),
                            !.returned = TRUE]
  /\ UNCHANGED process_vars

\* meme_data = self._extract_meme_data(post, subreddit_name)
ExtractMemeData ==
  /\ probe.kind = "extract"
  /\ ~probe.returned
  /\ probe' = [probe EXCEPT !.output = extract_meme_data(probe.input),
                            !.returned = TRUE]
  /\ UNCHANGED process_vars

\* one iteration of "for post in posts" on a post that is not in sent_posts
ScrapePost ==
  /\ probe.kind = "listing"
  /\ ~probe.returned
  /\ probe' = [probe EXCEPT !.output = scrape_post(probe.input),
                            !.returned = TRUE]
  /\ UNCHANGED process_vars

NextPure ==
  \/ FormatCaption
  \/ PassesFilters
  \/ ExtractMemeData
  \/ ScrapePost

SpecPure == InitPure /\ [][NextPure]_vars

(***************************************************************************)
(* Properties.                                                             *)
(***************************************************************************)
CycleEnded == pc = "idle" /\ outcome \in {"complete", "error"}

\* the posts scrape_memes is served for subreddit s
Served(s) == {upstream[s][i] : i \in 1..Min(Limit, Len(upstream[s]))}

\* C1: over any sequence of cycles on the same store file, restarts that
\* reload the file included, no post id is passed to send_memes more than once.
C1_SentAtMostOnce == \A p \in PostIds : handed[p] <= 1

\* a post delivered before a restart is served again, and skipped, after it
C1_Witness ==
  /\ restarts >= 1
  /\ CycleEnded
  /\ \E p \in Served("memes") \cup Served("dankmemes") :
       /\ handed[p] = 1
       /\ \A i \in 1..Len(memes) : memes[i] # p

\* C2 as stated: when scrape_memes runs twice in succession on the same
\* listings, the second run returns an empty list, whichever subreddits failed
\* in the first.
C2_SecondRunEmpty == (pc = "save" /\ same_listings) => memes = <<>>

\* C2 as amended: when scrape_memes runs twice in succession in one process on
\* the same listings, every item of the second run comes from a subreddit whose
\* scraping failed in the first run (none, when no subreddit failed).
C2_SecondRunOnlyFromFailed ==
  (pc = "save" /\ same_listings) =>
    \A i \in 1..Len(memes) : Post(memes[i]).subreddit \in prev_failed

\* the first run returned items, no subreddit failed, the second run is empty
C2_Witness ==
  /\ pc = "save"
  /\ same_listings
  /\ prev_failed = {}
  /\ stats.scraped > 0
  /\ memes = <<>>

ImageRaised(e) == e.tier = "image" /\ e.result = "raise"

\* C3: with three items of which only the second raises a non-fallback-eligible
\* error at the image tier, the cycle reports sent = 2 and failed = 1.
C3_PartialFailureCounted ==
  ( /\ CycleEnded
    /\ Len(log) = 3
    /\ ~ImageRaised(log[1])
    /\ ImageRaised(log[2])
    /\ ~ImageRaised(log[3]) )
  => (sent_count = 2 /\ failed_count = 1)

\* C4: within a cycle send_memes is called for the items scrape_memes returned,
\* in their order, and a cycle that ends normally has called it for all of
\* them, whatever became of the earlier deliveries.
C4_EveryItemAttempted ==
  /\ Len(log) <= Len(memes)
  /\ \A i \in 1..Len(log) : log[i].id = memes[i]
  /\ pc \in {"deliver", "image", "document", "text"} => mi = Len(log) + 1
  /\ (pc = "idle" /\ outcome = "complete") => Len(log) = Len(memes)

\* the first delivery raised or failed at every tier and the second was made
C4_Witness ==
  /\ pc = "idle"
  /\ outcome = "complete"
  /\ Len(memes) >= 2
  /\ Len(log) = Len(memes)
  /\ log[1].result \in {"raise", "logged"}

Tiers == <<"image", "document", "text">>

\* C5: the send primitives called for an item are image, document, text in
\* this order, each at most once, and none follows one that succeeded.
C5_FallbackOrder ==
  /\ Len(sends) <= Len(Tiers)
  /\ \A i \in 1..Len(sends) :
       /\ sends[i][1] = Tiers[i]
       /\ i < Len(sends) => sends[i][2] # "ok"
  /\ (sends # <<>> /\ sends[Len(sends)][2] = "ok") => pc \in {"deliver", "idle"}

\* the three tiers were used and the text message went out
C5_Witness ==
  /\ Len(sends) = 3
  /\ sends[3] = <<"text", "ok">>

EligibleClasses == {"photo_invalid_dimensions", "failed_to_get_http_url_content"}

\* C6: after an image failure outside the two classes no document and no text
\* is sent for the item; the document is sent exactly after an image failure of
\* one of the two classes.
C6_FallbackOnlyWhenEligible ==
  /\ (sends # <<>> /\ sends[1][2] \notin EligibleClasses) => Len(sends) = 1
  /\ (Len(sends) = 1 /\ sends[1][2] \in EligibleClasses) => pc = "document"
  /\ pc = "document" => (Len(sends) = 1 /\ sends[1][2] \in EligibleClasses)

\* an image failure of another class ended the delivery of the item
C6_Witness ==
  /\ sends = << <<"image", "telegram_error">> >>
  /\ log # <<>>
  /\ log[Len(log)].result = "raise"
  /\ pc \in {"deliver", "idle"}

\* C7: whenever the document send fails, whatever it raises, the text message
\* is sent for the item.
C7_TextAfterDocumentFailure ==
  (Len(sends) >= 2 /\ sends[2][2] # "ok") => (pc = "text" \/ Len(sends) = 3)

\* C8: an item whose image send fails with an eligible error, whose document
\* send fails and whose text send raises gets no further send and is counted
\* as failed by the driver.
C8_AllTiersFailedCountedFailed ==
  /\ Len(sends) <= 3
  /\ \A i \in 1..Len(log) :
       (log[i].tier = "text" /\ log[i].result = "logged") => log[i].counted = "failed"

\* C9: scrape_and_send returns normally, and a cycle in which the store write
\* or a delivery raised has incremented the failed counter.
C9_FailuresCounted ==
  /\ outcome \in {"none", "running", "complete", "error"}
  /\ ( /\ CycleEnded
       /\ \/ save_failed
          \/ \E i \in 1..Len(log) : log[i].result \in {"raise", "logged"} )
     => stats.failed > failed_before

\* C10: in a cycle whose store write failed, the items found are still
\* delivered and the cycle's results reported.
C10_DeliveredDespiteWriteFailure ==
  (CycleEnded /\ save_failed) =>
    /\ Len(log) = Len(memes)
    /\ sent_count + failed_count = Len(memes)

\* C11: a sent_posts.json that cannot be read at startup, whatever the reason,
\* is not fatal: the process starts with an empty set and never aborts on it
\* (a process ends at startup only for a setting its environment lacks).
C11_ReadFailureNotFatal == (pc = "aborted") => (missing # "none")

DeliveryStates == {"deliver", "image", "document", "text"}

C13_StoreHoldsOnlyDelivered ==
  CycleEnded =>
    \A i \in 1..Len(memes) :
      memes[i] \in sent_posts =>
        /\ i <= Len(log)
        /\ log[i].result = "done"

\* C14: the store only grows.  Within one process no step removes an id from
\* the in-memory set, a file write keeps every id of the file it replaces, and
\* every id of the file is in the in-memory set, so that every later write of
\* the process contains it.
C14_StoreOnlyGrows ==
  [][(pc # "boot" /\ pc' # "boot") =>
       /\ sent_posts \subseteq sent_posts'
       /\ (file.state = "valid" /\ file'.state = "valid") => file.ids \subseteq file'.ids
       /\ file.state = "valid" => file.ids \subseteq sent_posts
       /\ file'.state = "valid" => file'.ids \subseteq sent_posts']_vars

\* the second fetch of a process has added ids to those of its first fetch and
\* the file written after it holds both
C14_Witness ==
  /\ scrapes = 2
  /\ CycleEnded
  /\ file.state = "valid"
  /\ file.ids = sent_posts
  /\ memes # <<>>
  /\ \A i \in 1..Len(memes) : memes[i] \in file.ids
  /\ \E p \in file.ids :
       /\ handed[p] = 1
       /\ \A i \in 1..Len(memes) : memes[i] # p

\* C15: every call of scrape_memes calls save_sent_posts exactly once, after the
\* last configured subreddit: not while subreddits are being scraped, only when
\* the loop has reached the last subreddit, and once by the time scrape_memes
\* has returned or raised; also when subreddits failed.
C15_PersistedOnceAfterLastCategory ==
  /\ pc = "scrape" => saves = 0
  /\ pc = "save" => (saves = 0 /\ sub = Len(subreddits))
  /\ (pc \in DeliveryStates \/ CycleEnded) => saves = 1

\* every subreddit failed to fetch and the store was still persisted once
C15_Witness ==
  /\ CycleEnded
  /\ failed_subs = SubredditNames
  /\ saves = 1
  /\ file.state = "valid"

\* C16: a failure in one subreddit does not abort scrape_memes.  While
\* scrape_memes runs the items collected so far stay in memes, in order; when
\* it reaches its end every subreddit has been gone through, and every post
\* served by a subreddit that did not fail which passes the filters and has an
\* image is in the store, collected by this call or an earlier one.
C16_FailureDoesNotAbortFetch ==
  [][/\ (pc = "scrape" /\ pc' \in {"scrape", "save"}) =>
          /\ Len(memes) <= Len(memes')
          /\ SubSeq(memes', 1, Len(memes)) = memes
     /\ pc' = "save" =>
          /\ sub' = Len(subreddits)
          /\ \A s \in SubredditNames \ failed_subs' :
               \A p \in Served(s)' :
                 (passes_filters(Post(p)) /\ extract_meme_data(Post(p)) # "None")
                   => p \in sent_posts']_vars

\* the first subreddit failed after an item of it was collected, and the items
\* returned hold that item and one of the second subreddit
C16_Witness ==
  /\ pc = "save"
  /\ failed_subs = {"memes"}
  /\ \E i, j \in 1..Len(memes) :
       /\ i < j
       /\ Post(memes[i]).subreddit = "memes"
       /\ Post(memes[j]).subreddit = "dankmemes"

\* C17: send_memes is a no-op when telegram.enabled is false or the list is
\* empty: with the flag off no send primitive is called, the connection is not
\* refreshed and no pacing delay is made, and with an empty list send_memes
\* returns before the refresh whatever the flag.
C17_DisabledOrEmptyIsNoOp ==
  /\ ~enabled =>
       /\ sends = <<>>
       /\ refreshes = 0
       /\ sleeps = 0
       /\ pc \notin {"image", "document", "text"}
  /\ \A en \in BOOLEAN : ~SendMemesProceeds(en, <<>>)

\* with the flag off two items were passed to send_memes and nothing was done
C17_Witness ==
  /\ ~enabled
  /\ CycleEnded
  /\ Len(log) >= 2
  /\ \A i \in 1..Len(log) : log[i].result = "disabled" /\ handed[log[i].id] = 1
  /\ refreshes = 0
  /\ sleeps = 0

CaptionReturned == probe.kind = "caption" /\ probe.returned

\* the last n elements of the sequence s
Tail_n(s, n) == SubSeq(s, Len(s) - n + 1, Len(s))

\* C18: a formatted caption longer than 1024 characters is cut to exactly 1024
\* characters ending in an ellipsis, and one of 1024 characters or fewer is
\* returned unchanged.
C18_CutToExactly1024 ==
  CaptionReturned =>
    IF Len(Caption(probe.input)) > 1024
    THEN /\ Len(probe.output) = 1024
         /\ Tail_n(probe.output, 3) = Ellipsis
    ELSE probe.output = Caption(probe.input)

\* C18 as amended: a formatted caption longer than 1024 characters is cut to
\* its first 1020 characters followed by "...", 1023 characters in all, and one
\* of 1024 characters or fewer is returned unchanged.
C18_CutTo1023 ==
  CaptionReturned =>
    IF Len(Caption(probe.input)) > 1024
    THEN /\ Len(probe.output) = 1023
         /\ SubSeq(probe.output, 1, 1020) = SubSeq(Caption(probe.input), 1, 1020)
         /\ Tail_n(probe.output, 3) = Ellipsis
    ELSE probe.output = Caption(probe.input)

\* a caption of 1025 characters has been cut to 1023
C18_Witness ==
  /\ CaptionReturned
  /\ Len(Caption(probe.input)) = 1025
  /\ Len(probe.output) = 1023

FilterReturned == probe.kind = "filter" /\ probe.returned

\* the filters of _passes_filters, one by one
ScorePasses(post) == post.score >= min_score
NsfwPasses(post) == ~(exclude_nsfw /\ post.over_18)
TitlePasses(post) == post.title_len <= max_title_length
ImagePasses(post) ==
  image_only => (Lower(post.ext) \in image_extensions \/ post.post_hint = "image")

\* C19: with all other filters passing, a post is kept iff its score is at
\* least min_score: one with score min_score is kept, one with min_score - 1
\* is dropped.
C19_ScoreBoundary ==
  (/\ FilterReturned
   /\ NsfwPasses(probe.input)
   /\ TitlePasses(probe.input)
   /\ ImagePasses(probe.input)) =>
     /\ probe.output <=> probe.input.score >= min_score
     /\ probe.input.score = min_score => probe.output
     /\ probe.input.score = min_score - 1 => ~probe.output

\* a post with score min_score and the longest title allowed has been kept
C19_Witness ==
  /\ FilterReturned
  /\ probe.input.score = min_score
  /\ probe.input.title_len = max_title_length
  /\ NsfwPasses(probe.input)
  /\ ImagePasses(probe.input)
  /\ probe.output

\* C20: with all other filters passing, a post is kept iff its title has at
\* most max_title_length characters: one of exactly max_title_length is kept,
\* one character more is dropped.
C20_TitleLengthBoundary ==
  (/\ FilterReturned
   /\ ScorePasses(probe.input)
   /\ NsfwPasses(probe.input)
   /\ ImagePasses(probe.input)) =>
     /\ probe.output <=> probe.input.title_len <= max_title_length
     /\ probe.input.title_len = max_title_length => probe.output
     /\ probe.input.title_len = max_title_length + 1 => ~probe.output

\* a post whose title is one character too long, all else passing, was dropped
C20_Witness ==
  /\ FilterReturned
  /\ probe.input.title_len = max_title_length + 1
  /\ ScorePasses(probe.input)
  /\ NsfwPasses(probe.input)
  /\ ImagePasses(probe.input)
  /\ ~probe.output

ExtractReturned == probe.kind = "extract" /\ probe.returned

HasPreviewImages(post) == post.preview \in {"resolutions", "source_only"}

\* C21: for a post whose url ends in a known image extension and which also
\* carries a preview image set, the media url of the item is the post's own
\* url, not a preview url.
C21_DirectUrlBeforePreview ==
  (/\ ExtractReturned
   /\ Lower(probe.input.ext) \in image_extensions
   /\ probe.input.preview # "absent") =>
     probe.output = "url"

\* a post with an upper-case image extension and preview resolutions was
\* given its own url
C21_Witness ==
  /\ ExtractReturned
  /\ probe.input.ext = ".JPG"
  /\ probe.input.preview = "resolutions"
  /\ probe.output = "url"

ListingReturned == probe.kind = "listing" /\ probe.returned

\* the media url of the post by precedence: (a) its url has an image extension,
\* (b) it has a preview image set, (c) its url is on the direct-image host
Resolvable(post) ==
  \/ Lower(post.ext) \in image_extensions
  \/ HasPreviewImages(post)
  \/ post.host = "i.redd.it"

\* C26: with image_only on, a post that passes the other filters is emitted
\* exactly when its media url is resolvable by precedence (a)/(b)/(c); in
\* particular a post on the direct-image host with no image extension, no
\* preview and no image hint is emitted with its own url.
C26_EmittedIffResolvable ==
  (/\ ListingReturned
   /\ image_only
   /\ ScorePasses(probe.input)
   /\ NsfwPasses(probe.input)
   /\ TitlePasses(probe.input)) =>
     /\ probe.output \notin {"filtered", "None"} <=> Resolvable(probe.input)
     /\ (/\ probe.input.host = "i.redd.it"
         /\ probe.input.ext = ""
         /\ probe.input.preview = "absent"
         /\ probe.input.post_hint # "image") => probe.output = "url"

\* the ids of the items ms
Ids(ms) == {ms[i] : i \in 1..Len(ms)}

\* the listing scrape_memes is served for subreddit s, in the order served
ServedSeq(s) == SubSeq(upstream[s], 1, Min(Limit, Len(upstream[s])))

\* the posts of the first k configured subreddits that are in the set S, by
\* subreddit in configured order and within a subreddit in the order served
RECURSIVE InSourceOrder(_, _)
InSourceOrder(k, S) ==
  IF k = 0 THEN <<>>
  ELSE InSourceOrder(k - 1, S) \o SelectSeq(ServedSeq(subreddits[k]), LAMBDA p : p \in S)

\* C22: the sequence scrape_memes returns is the concatenation, in configured
\* subreddit order, of each subreddit's accepted posts in the order the listing
\* served them; it is not re-ordered by score or otherwise.
C22_CategoryThenSourceOrder ==
  /\ memes = InSourceOrder(Len(subreddits), Ids(memes))
  /\ \A i \in 1..Len(memes) :
       /\ passes_filters(Post(memes[i]))
       /\ extract_meme_data(Post(memes[i])) # "None"

\* three items were returned, in an order that is neither ascending nor
\* descending by score
C22_Witness ==
  /\ pc = "save"
  /\ Len(memes) >= 3
  /\ \E i, j \in 1..Len(memes) : i < j /\ Post(memes[i]).score < Post(memes[j]).score
  /\ \E i, j \in 1..Len(memes) : i < j /\ Post(memes[i]).score > Post(memes[j]).score

\* C23: if config.json, one of the three reddit credentials or one of the two
\* telegram credentials is missing at startup, the program aborts before any
\* cycle runs: that process never gets as far as the call of save_sent_posts
\* that ends a fetch, so the store file is not written.
C23_MissingSettingAbortsStartup == (missing # "none") => (saves = 0)

InCycle == pc \in {"scrape", "save"} \cup DeliveryStates

\* C24: cycles never overlap.  scrape_and_send is begun only when no cycle is
\* in progress and the previous one has returned, a cycle is in progress
\* exactly while the process is inside scrape_and_send, and an item is handed to
\* send_memes only after scrape_memes has saved the store and returned.
C24_CyclesNeverOverlap ==
  [][/\ cycles' # cycles => (~InCycle /\ outcome # "running" /\ pc' = "scrape")
     /\ (outcome = "running") <=> InCycle
     /\ handed' # handed => (pc = "deliver" /\ saves = 1 /\ outcome = "running")]_vars

\* the second cycle of a process is delivering, after the first one returned
C24_Witness ==
  /\ scrapes = 2
  /\ pc = "image"
  /\ saves = 1
  /\ stats.last_run = 1

\* C25: while scrape_memes runs, an id enters sent_posts only together with the
\* item appended to memes for it: a post that is already in sent_posts, fails a
\* filter, or for which the extraction gave nothing leaves sent_posts unchanged.
C25_RecordedOnlyWhenEmitted ==
  [][(pc = "scrape" /\ pc' \in {"scrape", "save"}) =>
       /\ sent_posts' = sent_posts \cup (Ids(memes') \ Ids(memes))
       /\ sent_posts' # sent_posts => Len(memes') = Len(memes) + 1
       /\ (/\ idx' = idx + 1
           /\ \/ Posts[idx] \in sent_posts
              \/ ~passes_filters(Post(Posts[idx]))
              \/ extract_meme_data(Post(Posts[idx])) = "None")
            => sent_posts' = sent_posts]_vars

\* a fetch was served a post seen before, a post below min_score and a post with
\* nothing to extract, emitted another and recorded only that one
C25_Witness ==
  /\ pc = "save"
  /\ failed_subs = {}
  /\ memes = <<3>>
  /\ ServedSeq("memes") = <<5, 2>>
  /\ ServedSeq("dankmemes") = <<4, 3>>
  /\ sent_posts = {1, 2, 3}

\* the extraction of the post raises inside _extract_meme_data
ExtractionRaises(post) == ~is_image_url(post) /\ post.preview = "empty_images"

\* C27: if extracting the item from one post raises, only that post is dropped:
\* the step leaves scrape_memes in the same subreddit at the next post, with
\* memes, sent_posts and the failed subreddits as they were, and scrape_memes
\* still goes through every subreddit.
C27_ExtractionErrorDropsOnlyThePost ==
  [][/\ (/\ pc = "scrape"
         /\ idx' = idx + 1
         /\ Posts[idx] \notin sent_posts
         /\ passes_filters(Post(Posts[idx]))
         /\ ExtractionRaises(Post(Posts[idx])))
          => /\ pc' = "scrape"
             /\ sub' = sub
             /\ memes' = memes
             /\ sent_posts' = sent_posts
             /\ failed_subs' = failed_subs
     /\ pc' = "save" => sub' = Len(subreddits)]_vars

\* the extraction raised for the first post of the first subreddit; the post
\* after it and a post of the second subreddit were emitted
C27_Witness ==
  /\ pc = "save"
  /\ failed_subs = {}
  /\ ServedSeq("memes") = <<5, 2>>
  /\ ExtractionRaises(Post(5))
  /\ 5 \notin sent_posts
  /\ memes = <<2, 3>>

\* C28: at the end of a cycle in which scrape_memes returned n >= 1 items, the
\* counts of the cycle add up to n and the cumulative sent and failed counters
\* have grown by exactly sent_count and failed_count.
C28_CountsAddUp ==
  (CycleEnded /\ outcome = "complete" /\ memes # <<>>) =>
    /\ sent_count + failed_count = Len(memes)
    /\ stats.sent = sent_before + sent_count
    /\ stats.failed = failed_before + failed_count
    /\ stats.scraped >= Len(memes)

\* the second cycle of a process ended with two items on top of earlier ones
C28_Witness ==
  /\ CycleEnded
  /\ outcome = "complete"
  /\ scrapes = 2
  /\ sent_before >= 1
  /\ Len(memes) = 2
  /\ stats.sent = sent_before + 2

\* C29: an item whose delivery failed at every tier or raised is never handed
\* to send_memes again: its id was recorded and persisted by the fetch, before
\* the delivery, so it has been handed over once, is in the file (or the file
\* no longer parses) and is in sent_posts of every process that runs.
C29_FailedItemNeverRetried ==
  \A p \in undelivered :
    /\ handed[p] = 1
    /\ file.state = "corrupt" \/ (file.state = "valid" /\ p \in file.ids)
    /\ pc \notin {"boot", "aborted"} => p \in sent_posts

\* with delivery enabled the delivery of an item failed in the first cycle; the
\* second fetch of the process was served the item and left it out
C29_Witness ==
  /\ restarts = 0
  /\ enabled
  /\ scrapes = 2
  /\ pc = "save"
  /\ \E p \in undelivered :
       /\ \E s \in SubredditNames \ failed_subs : p \in Ids(ServedSeq(s))
       /\ p \notin Ids(memes)

\* C30: with telegram.enabled false a cycle that finds n items makes no send
\* call, counts all n as sent and none as failed, and has recorded and written
\* their ids, so that no later cycle hands them to send_memes.
C30_DisabledCountsAsSent ==
  /\ ~enabled => sends = <<>>
  /\ (~enabled /\ CycleEnded /\ outcome = "complete") =>
       /\ sent_count = Len(memes)
       /\ failed_count = 0
       /\ \A i \in 1..Len(memes) :
            /\ memes[i] \in undelivered
            /\ memes[i] \in sent_posts
            /\ file.state = "valid" /\ memes[i] \in file.ids
  /\ \A p \in undelivered : handed[p] <= 1

\* a process with delivery disabled counted two items as sent in its first
\* cycle; in its second cycle it is served one of them again and leaves it out
C30_Witness ==
  /\ ~enabled
  /\ restarts = 0
  /\ scrapes = 2
  /\ CycleEnded
  /\ outcome = "complete"
  /\ sent_before = 2
  /\ stats.failed = 0
  /\ \E p \in undelivered :
       /\ p \in Ids(ServedSeq("memes")) \cup Ids(ServedSeq("dankmemes"))
       /\ p \notin Ids(memes)
       /\ failed_subs = {}

=============================================================================
